---- MODULE Spec2Model ----
(***************************************************************************)
(* thinkspace: the note store (src/thinkspace/storage.py) and the delete   *)
(* command of its command line (src/thinkspace/cli.py).                    *)
(*                                                                         *)
(* A Python str is a sequence of one-character strings, so that joining,   *)
(* splitting, stripping, ordering and pattern matching are computed, not   *)
(* assumed.  An Optional[str] is the empty set (None) or a singleton.      *)
(***************************************************************************)
EXTENDS Integers, Sequences, FiniteSets, TLC

VARIABLES
  notes,      \* the notes table: live id -> row
  ftsIndex,   \* the notes_fts index: set of [rowid, text, project, tags]
  fts5,       \* whether this SQLite build has the FTS5 extension
  clock,      \* the wall clock read by now_iso()
  issued,     \* history: every id insert_note has returned
  deleted,    \* history: every id for which delete_note has returned True
  recentIns,  \* history: ids returned by the inserts since the last delete
  last        \* the last call: its arguments and what it returned

vars == <<notes, ftsIndex, fts5, clock, issued, deleted, recentIns, last>>

\* ------------------------------------------------------------------ bounds
MaxId == 3
MaxSmallId == 2
MaxClock == 2

\* ----------------------------------------------------------------- strings
\* The code point of a character: Python's str ordering and SQLite's BINARY
\* collation both compare by it.
Ord(c) ==
  CASE c = " " -> 32
    [] c = "\"" -> 34
    [] c = "%" -> 37
    [] c = "," -> 44
    [] c = "." -> 46
    [] c = "/" -> 47
    [] c = "0" -> 48
    [] c = "1" -> 49
    [] c = "2" -> 50
    [] c = "3" -> 51
    [] c = "4" -> 52
    [] c = "5" -> 53
    [] c = "6" -> 54
    [] c = "7" -> 55
    [] c = "8" -> 56
    [] c = "9" -> 57
    [] c = "A" -> 65
    [] c = "B" -> 66
    [] c = "_" -> 95
    [] c = "a" -> 97
    [] c = "b" -> 98
    [] c = "c" -> 99
    [] c = "p" -> 112
    [] c = "q" -> 113
    [] c = "t" -> 116
    [] c = "x" -> 120

\* ASCII case folding, as SQLite's LIKE and the unicode61 tokenizer do it.
Lower(c) ==
  CASE c = "A" -> "a"
    [] c = "B" -> "b"
    [] OTHER -> c

RECURSIVE StrLess(_, _)
\* a < b for two strs: the first differing character decides, a proper
\* prefix is smaller.
StrLess(a, b) ==
  IF b = <<>> THEN FALSE
  ELSE IF a = <<>> THEN TRUE
  ELSE IF Ord(Head(a)) # Ord(Head(b)) THEN Ord(Head(a)) < Ord(Head(b))
  ELSE StrLess(Tail(a), Tail(b))

StrLeq(a, b) == a = b \/ StrLess(a, b)

Range(s) == {s[i] : i \in DOMAIN s}

RECURSIVE Sorted(_)
\* sorted(S) for a finite set of strs: ascending by StrLess.
Sorted(S) ==
  IF S = {} THEN <<>>
  ELSE LET m == CHOOSE x \in S : \A y \in S : StrLeq(x, y)
       IN <<m>> \o Sorted(S \ {m})

RECURSIVE Join(_, _)
\* sep.join(parts)
Join(sep, parts) ==
  IF parts = <<>> THEN <<>>
  ELSE IF Len(parts) = 1 THEN parts[1]
  ELSE parts[1] \o sep \o Join(sep, Tail(parts))

RECURSIVE SplitFrom(_, _, _)
SplitFrom(s, sep, cur) ==
  IF s = <<>> THEN <<cur>>
  ELSE IF Head(s) = sep THEN <<cur>> \o SplitFrom(Tail(s), sep, <<>>)
  ELSE SplitFrom(Tail(s), sep, Append(cur, Head(s)))

\* s.split(sep) for a one-character sep: "" splits to [""].
Split(s, sep) == SplitFrom(s, sep, <<>>)

RECURSIVE LStrip(_)
LStrip(s) == IF s # <<>> /\ Head(s) = " " THEN LStrip(Tail(s)) ELSE s

RECURSIVE RStrip(_)
RStrip(s) ==
  IF s # <<>> /\ s[Len(s)] = " " THEN RStrip(SubSeq(s, 1, Len(s) - 1)) ELSE s

\* s.strip()
Strip(s) == RStrip(LStrip(s))

\* Optional[str]
None == {}
Some(s) == {s}
TheStr(o) == CHOOSE s \in o : TRUE
\* Python truthiness of an Optional[str]: None and "" are both falsy.
Truthy(o) == o # {} /\ TheStr(o) # <<>>

\* ------------------------------------------------------------------ schema
\* A row of the notes table, and the Note dataclass built from it.
Note(id, text, project, tags, created_at, path) ==
  [id |-> id, text |-> text, project |-> project, tags |-> tags,
   created_at |-> created_at, path |-> path]

\* The columns of a row that notes_fts mirrors, keyed by rowid.
FtsEntry(row) ==
  [rowid |-> row.id, text |-> row.text, project |-> row.project,
   tags |-> row.tags]

\* Trigger notes_ai: AFTER INSERT ON notes, insert the new row's columns.
notes_ai(idx, new) == idx \cup {FtsEntry(new)}

notes_ad_keeps_entry(idx, old) == idx

\* Trigger notes_ad: AFTER DELETE ON notes, the 'delete' command with the old
\* row's columns removes its entry.
notes_ad(idx, old) == idx \ {FtsEntry(old)}

\* has_fts5: the probe succeeds exactly when the build has the extension.
has_fts5 == fts5

\* id INTEGER PRIMARY KEY without AUTOINCREMENT: the rowid of a new row is
\* one more than the largest rowid in the table, 1 for an empty table.
NextRowid(ns) ==
  IF DOMAIN ns = {} THEN 1
  ELSE (CHOOSE m \in DOMAIN ns : \A i \in DOMAIN ns : i <= m) + 1

DigitChars == <<"0", "1", "2", "3", "4", "5", "6", "7", "8", "9">>

\* now_iso: the clock reading in a fixed-width, zero-padded format.
now_iso(t) == <<DigitChars[((t \div 10) % 10) + 1], DigitChars[(t % 10) + 1]>>

\* ------------------------------------------------------------- note store
\* str(path) of a relative pathlib.Path given by its parts: the parts joined
\* by "/", and "." for the path without parts.
PathStr(parts) == IF parts = <<>> THEN <<".">> ELSE Join(<<"/">>, parts)

TagsStrUnsorted(tags) == Join(<<",">>, tags)

\* ','.join(sorted(set(tags)))
TagsStr(tags) == Join(<<",">>, Sorted(Range(tags)))

RECURSIVE OrderByIdAsc(_)
OrderByIdAsc(rows) ==
  IF rows = {} THEN <<>>
  ELSE LET r == CHOOSE x \in rows : \A y \in rows : x.id <= y.id
       IN <<r>> \o OrderByIdAsc(rows \ {r})

RECURSIVE OrderByIdDesc(_)
\* ORDER BY id DESC
OrderByIdDesc(rows) ==
  IF rows = {} THEN <<>>
  ELSE LET r == CHOOSE x \in rows : \A y \in rows : y.id <= x.id
       IN <<r>> \o OrderByIdDesc(rows \ {r})

\* LIMIT n: the first n rows; a negative n is no limit.
Limit(rows, n) ==
  IF n < 0 \/ n >= Len(rows) THEN rows ELSE SubSeq(rows, 1, n)

Rows(ns) == {ns[i] : i \in DOMAIN ns}

iter_recent_ascending(ns, limit) == Limit(OrderByIdAsc(Rows(ns)), limit)

\* SELECT * FROM notes ORDER BY id DESC LIMIT ?
iter_recent(ns, limit) == Limit(OrderByIdDesc(Rows(ns)), limit)

\* SELECT * FROM notes WHERE id = ?: the row in a list, or no row.
get_note(ns, note_id) ==
  IF note_id \in DOMAIN ns THEN <<ns[note_id]>> ELSE <<>>

RECURSIVE AllFragments(_)
\* for (tag_str,) in cur.fetchall(): for t in tag_str.split(','): the
\* fragments of every row, in row order.
AllFragments(rows) ==
  IF rows = <<>> THEN <<>>
  ELSE Split(Head(rows).tags, ",") \o AllFragments(Tail(rows))

RECURSIVE CountTags(_, _)
\* t = t.strip(); if t: counts[t] = counts.get(t, 0) + 1
CountTags(frags, counts) ==
  IF frags = <<>> THEN counts
  ELSE LET t == Strip(Head(frags))
           more == IF t = <<>> THEN counts
                   ELSE [k \in DOMAIN counts \cup {t} |->
                           IF k = t
                             THEN (IF t \in DOMAIN counts THEN counts[t] ELSE 0) + 1
                             ELSE counts[k]]
       IN CountTags(Tail(frags), more)

\* The sort key (-count, tag): a before b.
ItemBefore(a, b) == a[2] > b[2] \/ (a[2] = b[2] /\ StrLess(a[1], b[1]))

RECURSIVE SortItems(_)
\* sorted(counts.items(), key=lambda kv: (-kv[1], kv[0]))
SortItems(items) ==
  IF items = {} THEN <<>>
  ELSE LET m == CHOOSE x \in items : \A y \in items \ {x} : ItemBefore(x, y)
       IN <<m>> \o SortItems(items \ {m})

\* seq[:n] of Python: a negative n drops the last -n elements.
PySlice(seq, n) ==
  IF n >= 0 THEN SubSeq(seq, 1, IF n < Len(seq) THEN n ELSE Len(seq))
  ELSE SubSeq(seq, 1, IF Len(seq) + n > 0 THEN Len(seq) + n ELSE 0)

top_tags(ns, limit) ==
  LET counts == CountTags(AllFragments(OrderByIdAsc(Rows(ns))), <<>>)
  IN PySlice(SortItems({<<t, counts[t]>> : t \in DOMAIN counts}), limit)

\* -------------------------------------------------------------- search
RECURSIVE LikeMatch(_, _)
\* s LIKE pat: % matches any run of characters, _ any one character, and
\* ASCII letters match without regard to case; no ESCAPE is given.
LikeMatch(pat, s) ==
  IF pat = <<>> THEN s = <<>>
  ELSE IF Head(pat) = "%"
    THEN LikeMatch(Tail(pat), s) \/ (s # <<>> /\ LikeMatch(pat, Tail(s)))
  ELSE IF Head(pat) = "_" THEN s # <<>> /\ LikeMatch(Tail(pat), Tail(s))
  ELSE /\ s # <<>>
       /\ Lower(Head(pat)) = Lower(Head(s))
       /\ LikeMatch(Tail(pat), Tail(s))

\* like = f'%{query}%'
LikePattern(query) == <<"%">> \o query \o <<"%">>

\* The characters the unicode61 tokenizer keeps in a token.
TokenChars ==
  {"a", "b", "c", "p", "q", "t", "x", "A", "B",
   "0", "1", "2", "3", "4", "5", "6", "7", "8", "9"}

\* The characters of an FTS5 bareword.
BarewordChars == TokenChars \cup {"_"}

RECURSIVE TokenizeFrom(_, _)
TokenizeFrom(s, cur) ==
  IF s = <<>> THEN (IF cur = <<>> THEN <<>> ELSE <<cur>>)
  ELSE IF Head(s) \in TokenChars
    THEN TokenizeFrom(Tail(s), Append(cur, Lower(Head(s))))
  ELSE (IF cur = <<>> THEN <<>> ELSE <<cur>>) \o TokenizeFrom(Tail(s), <<>>)

\* The tokens of a column value or of a phrase: the maximal runs of token
\* characters, case folded.
Tokenize(s) == TokenizeFrom(s, <<>>)

Fts5Error == [ok |-> FALSE, phrases |-> <<>>]

RECURSIVE Fts5Scan(_, _, _, _, _)
\* The phrases of a MATCH expression made of barewords and "strings"
\* separated by spaces (an implicit AND).  Inside a string "" is a quote.
\* A character that is none of these, or a string left open, is an error.
Fts5Scan(q, inStr, cur, open, acc) ==
  IF q = <<>>
    THEN IF inStr THEN Fts5Error
         ELSE [ok |-> TRUE,
               phrases |-> IF open THEN Append(acc, cur) ELSE acc]
  ELSE LET c == Head(q)
           rest == Tail(q)
           closed == IF open THEN Append(acc, cur) ELSE acc
       IN IF inStr
            THEN IF c = "\""
                   THEN IF rest # <<>> /\ Head(rest) = "\""
                          THEN Fts5Scan(Tail(rest), TRUE, Append(cur, c),
                                        FALSE, acc)
                          ELSE Fts5Scan(rest, FALSE, <<>>, FALSE,
                                        Append(acc, cur))
                   ELSE Fts5Scan(rest, TRUE, Append(cur, c), FALSE, acc)
          ELSE IF c = "\"" THEN Fts5Scan(rest, TRUE, <<>>, FALSE, closed)
          ELSE IF c = " " THEN Fts5Scan(rest, FALSE, <<>>, FALSE, closed)
          ELSE IF c \in BarewordChars
            THEN Fts5Scan(rest, FALSE, Append(cur, c), TRUE, acc)
          ELSE Fts5Error

\* notes_fts MATCH ?: the expression parsed; one without a phrase is an error.
Fts5Parse(q) ==
  LET r == Fts5Scan(q, FALSE, <<>>, FALSE, <<>>)
  IN IF r.ok /\ r.phrases # <<>> THEN r ELSE Fts5Error

\* The tokens of phrase p occur next to each other, in order, in tokens t.
PhraseIn(p, t) ==
  \E i \in 0..(Len(t) - Len(p)) : \A j \in 1..Len(p) : t[i + j] = p[j]

\* An index entry matches when each phrase that has tokens occurs in one of
\* its columns; phrases without tokens are dropped, and an expression with
\* no token at all matches nothing.
Fts5EntryMatches(e, phrases) ==
  LET toks == {Tokenize(phrases[i]) : i \in DOMAIN phrases} \ {<<>>}
  IN /\ toks # {}
     /\ \A p \in toks :
          \/ PhraseIn(p, Tokenize(e.text))
          \/ PhraseIn(p, Tokenize(e.project))
          \/ PhraseIn(p, Tokenize(e.tags))

\* SELECT rowid FROM notes_fts WHERE notes_fts MATCH ?
Fts5Rowids(idx, q) ==
  LET phrases == Fts5Parse(q).phrases
  IN {e.rowid : e \in {x \in idx : Fts5EntryMatches(x, phrases)}}

UntilExclusive(row, until) ==
  Truthy(until) => StrLess(row.created_at, TheStr(until))

\* if project: project = ?
ProjectClause(row, project) ==
  Truthy(project) => row.project = TheStr(project)

\* if since: created_at >= ?
SinceClause(row, since) ==
  Truthy(since) => StrLeq(TheStr(since), row.created_at)

\* if until: created_at <= ?
UntilClause(row, until) ==
  Truthy(until) => StrLeq(row.created_at, TheStr(until))

\* The clause the query text adds, by backend; matched is the result of the
\* MATCH subquery.
TextClause(row, matched, query) ==
  IF query # <<>> /\ has_fts5 THEN row.id \in matched
  ELSE IF query # <<>>
    THEN \/ LikeMatch(LikePattern(query), row.text)
         \/ LikeMatch(LikePattern(query), row.tags)
  ELSE TRUE

\* cur.execute(sql, params) raises sqlite3.OperationalError when the MATCH
\* expression does not parse; with LIMIT 0 the statement ends before the
\* subquery is run.  Nothing in search_notes catches it.
SearchRaises(query, limit) ==
  query # <<>> /\ has_fts5 /\ ~Fts5Parse(query).ok /\ limit # 0

\* SELECT * FROM notes WHERE {where} ORDER BY id DESC LIMIT ?
search_notes(ns, idx, query, project, since, until, limit) ==
  IF SearchRaises(query, limit) THEN <<>>
  ELSE LET matched == IF query # <<>> /\ has_fts5
                        THEN Fts5Rowids(idx, query) ELSE {}
       IN Limit(OrderByIdDesc({r \in Rows(ns) :
                              /\ TextClause(r, matched, query)
                              /\ ProjectClause(r, project)
                              /\ SinceClause(r, since)
                              /\ UntilClause(r, until)}), limit)

\* The record of a call; each action fills the fields of its call.
NoCall ==
  [op |-> "none", id |-> 0, ok |-> FALSE, raised |-> FALSE, rows |-> <<>>,
   text |-> <<>>, project |-> <<>>, path |-> <<>>, tagsIn |-> <<>>,
   query |-> <<>>, fproject |-> None, since |-> None, until |-> None,
   limit |-> 0, pairs |-> <<>>, targets |-> <<>>, yes |-> FALSE,
   log |-> <<>>]

Init ==
  /\ notes = <<>>
  /\ ftsIndex = {}
  /\ fts5 \in BOOLEAN
  /\ clock = 0
  /\ issued = {}
  /\ deleted = {}
  /\ recentIns = <<>>
  /\ last = NoCall

\* The wall clock advances between calls.
Tick ==
  /\ clock < MaxClock
  /\ clock' = clock + 1
  /\ UNCHANGED <<notes, ftsIndex, fts5, issued, deleted, recentIns, last>>

insert_note(text, project, tags, path) ==
  LET id == NextRowid(notes)
      created_at == now_iso(clock)
      tags_str == TagsStr(tags)
      row == Note(id, text, project, tags_str, created_at, PathStr(path))
  IN /\ notes' = [i \in DOMAIN notes \cup {id} |->
                    IF i = id THEN row ELSE notes[i]]
     /\ ftsIndex' = IF fts5 THEN notes_ai(ftsIndex, row) ELSE ftsIndex
     /\ last' = [NoCall EXCEPT !.op = "insert", !.id = id, !.text = text,
                   !.project = project, !.tagsIn = tags, !.path = path]
     /\ UNCHANGED <<fts5, clock>>

\* DELETE FROM notes WHERE id = ?: the table afterwards.
RowsAfterDelete(ns, note_id) == [i \in DOMAIN ns \ {note_id} |-> ns[i]]

\* The index after the DELETE: notes_ad fires for the row removed, when the
\* schema has the trigger.
IndexAfterDelete(ns, idx, note_id) ==
  IF fts5 /\ note_id \in DOMAIN ns THEN notes_ad(idx, ns[note_id]) ELSE idx

delete_note(note_id) ==
  LET present == note_id \in DOMAIN notes
  IN /\ notes' = RowsAfterDelete(notes, note_id)
     /\ ftsIndex' = IndexAfterDelete(notes, ftsIndex, note_id)
     /\ last' = [NoCall EXCEPT !.op = "delete", !.id = note_id,
                   !.ok = present]
     /\ UNCHANGED <<fts5, clock>>

\* ------------------------------------------------------ the delete command
RECURSIVE Dedup(_, _)
\* Deduplicate while preserving order.
Dedup(ids, seen) ==
  IF ids = <<>> THEN <<>>
  ELSE IF Head(ids) \in seen THEN Dedup(Tail(ids), seen)
  ELSE <<Head(ids)>> \o Dedup(Tail(ids), seen \cup {Head(ids)})

\* --limit of the interactive picker.
PickerLimit == 20

\* _interactive_select_notes: the recent notes the user left selected, in
\* the order listed; nothing when the user cancels.
SelectedNotes(ns, picks) ==
  LET listed == iter_recent(ns, PickerLimit)
  IN SelectSeq([i \in 1..Len(listed) |-> listed[i].id],
               LAMBDA id : id \in picks)

ProceedsAlways(yes, answer) == TRUE

\* if not yes: if not typer.confirm(...): continue
Proceeds(yes, answer) == yes \/ answer

RECURSIVE ProcessTargets(_, _, _, _, _, _)
\* for nid in deduped: the store after the loop, and what happened to each
\* id.  answers are the replies to the prompts, in the order asked.
ProcessTargets(ids, yes, answers, ns, idx, log) ==
  IF ids = <<>> THEN [notes |-> ns, index |-> idx, log |-> log]
  ELSE LET nid == Head(ids)
           asked == ~yes
           answer == IF asked THEN Head(answers) ELSE FALSE
       IN IF get_note(ns, nid) = <<>>
            THEN ProcessTargets(Tail(ids), yes, answers, ns, idx,
                   Append(log, [id |-> nid, outcome |-> "not found",
                                asked |-> FALSE, answer |-> FALSE]))
          ELSE IF ~Proceeds(yes, answer)
            THEN ProcessTargets(Tail(ids), yes, Tail(answers), ns, idx,
                   Append(log, [id |-> nid, outcome |-> "skipped",
                                asked |-> asked, answer |-> answer]))
          ELSE ProcessTargets(Tail(ids), yes,
                 IF asked THEN Tail(answers) ELSE answers,
                 RowsAfterDelete(ns, nid), IndexAfterDelete(ns, idx, nid),
                 Append(log, [id |-> nid,
                              outcome |-> IF nid \in DOMAIN ns
                                            THEN "deleted"
                                            ELSE "could not be deleted",
                              asked |-> asked, answer |-> answer]))

\* thinkspace delete [-y] [-i] [NOTE_ID ...]
delete(note_id, yes, picks, answers) ==
  LET target_ids == SelectedNotes(notes, picks) \o note_id
      deduped == Dedup(target_ids, {})
      done == ProcessTargets(deduped, yes, answers, notes, ftsIndex, <<>>)
  IN /\ notes' = done.notes
     /\ ftsIndex' = done.index
     /\ last' = [NoCall EXCEPT !.op = "cli delete", !.targets = target_ids,
                   !.yes = yes, !.log = done.log]
     /\ UNCHANGED <<fts5, clock>>

\* export: --limit is not an option of export; both queries ask for at most
\* this many notes.
ExportLimit == 10000

\* rows[::-1]
Reversed(rows) == [i \in 1..Len(rows) |-> rows[Len(rows) + 1 - i]]

\* The notes export writes, in the order of their sections in the file: the
\* notes search_notes finds for the project, or, when it finds none, the
\* notes of iter_recent; oldest first.
ExportRows(ns, idx, project) ==
  LET found == search_notes(ns, idx, <<>>, project, None, None, ExportLimit)
      rows == IF found = <<>> THEN iter_recent(ns, ExportLimit) ELSE found
  IN Reversed(rows)

\* thinkspace export [--project P]: writes the file and changes no note.
export(project) ==
  /\ last' = [NoCall EXCEPT !.op = "cli export", !.fproject = project,
                !.limit = ExportLimit,
                !.rows = ExportRows(notes, ftsIndex, project)]
  /\ UNCHANGED <<notes, ftsIndex, fts5, clock>>

GetNote(note_id) ==
  /\ last' = [NoCall EXCEPT !.op = "get", !.id = note_id,
                !.rows = get_note(notes, note_id),
                !.ok = (get_note(notes, note_id) # <<>>)]
  /\ UNCHANGED <<notes, ftsIndex, fts5, clock, issued, deleted, recentIns>>

IterRecent(limit) ==
  /\ last' = [NoCall EXCEPT !.op = "recent", !.limit = limit,
                !.rows = iter_recent(notes, limit)]
  /\ UNCHANGED <<notes, ftsIndex, fts5, clock, issued, deleted, recentIns>>

TopTags(limit) ==
  /\ last' = [NoCall EXCEPT !.op = "top_tags", !.limit = limit,
                !.pairs = top_tags(notes, limit)]
  /\ UNCHANGED <<notes, ftsIndex, fts5, clock, issued, deleted, recentIns>>

SearchNotes(query, project, since, until, limit) ==
  /\ last' = [NoCall EXCEPT !.op = "search", !.query = query,
                !.fproject = project, !.since = since, !.until = until,
                !.limit = limit,
                !.raised = SearchRaises(query, limit),
                !.rows = search_notes(notes, ftsIndex, query, project,
                                      since, until, limit)]
  /\ UNCHANGED <<notes, ftsIndex, fts5, clock, issued, deleted, recentIns>>

\* ------------------------------------------------------------------ inputs
\* Ids a caller may name: every id the store can hold, and one beyond.
Ids == 1..(MaxId + 1)

Limits == (-1)..(MaxId + 1)

\* The model stops inserting at rowid cap.
CanInsert(cap) == NextRowid(notes) <= cap

\* The history of the ids returned, kept by the store specification only.
NoHistory == UNCHANGED <<issued, deleted, recentIns>>

RecordInsert ==
  /\ issued' = issued \cup {last'.id}
  /\ recentIns' = Append(recentIns, last'.id)
  /\ UNCHANGED deleted

RecordDelete ==
  /\ deleted' = IF last'.ok THEN deleted \cup {last'.id} ELSE deleted
  /\ recentIns' = IF last'.ok THEN <<>> ELSE recentIns
  /\ UNCHANGED issued

\* (text, project, tags, path) of the notes the store specification inserts.
StoreInputs ==
  {<< <<"a">>, <<"p">>, << <<"b">>, <<"a">>, <<"a">> >>, <<>> >>,
   << <<"b", "a">>, <<"q">>, <<>>, << <<"x">>, <<"t">> >> >>,
   << <<"a">>, <<"p">>, << <<"a">> >>, <<>> >>}

InsertStore ==
  /\ CanInsert(MaxId)
  /\ \E n \in StoreInputs : insert_note(n[1], n[2], n[3], n[4])
  /\ RecordInsert

DeleteStore == (\E id \in Ids : delete_note(id)) /\ RecordDelete

Delete == (\E id \in Ids : delete_note(id)) /\ NoHistory

Get == \E id \in Ids : GetNote(id)

Recent == \E k \in Limits : IterRecent(k)

Next == InsertStore \/ DeleteStore \/ Get \/ Recent

Spec == Init /\ [][Next]_vars

\* (text, project, tags, path) of the notes the tags specification inserts:
\* tags as the command line passes them on, unstripped.
TagInputs ==
  {<< <<"a">>, <<"p">>, << <<"a">>, <<"b">>, <<"c">> >>, <<>> >>,
   << <<"a">>, <<"p">>, << <<"b">>, <<"a">> >>, <<>> >>,
   << <<"a">>, <<"p">>, << <<" ", "a">>, <<"a">> >>, <<>> >>,
   << <<"a">>, <<"p">>, << <<" ">>, <<"c">>, <<>> >>, <<>> >>}

InsertTags ==
  /\ CanInsert(MaxId)
  /\ \E n \in TagInputs : insert_note(n[1], n[2], n[3], n[4])
  /\ NoHistory

Tags == \E k \in Limits : TopTags(k)

NextTags == InsertTags \/ Delete \/ Tags

SpecTags == Init /\ [][NextTags]_vars

\* (text, project, tags, path) of the notes the search specification
\* inserts: "b" in the project only, in the text, in the tags only.
SearchInputs ==
  {<< <<"a">>, <<"b">>, << <<"a">> >>, <<>> >>,
   << <<"b">>, <<"p">>, <<>>, <<>> >>,
   << <<"a">>, <<"p">>, << <<"b">> >>, <<>> >>}

Queries == {<<"b">>, <<"B">>, <<"_">>, <<"\"">>}

InsertSearch ==
  /\ CanInsert(MaxId)
  /\ \E n \in SearchInputs : insert_note(n[1], n[2], n[3], n[4])
  /\ NoHistory

Search ==
  \E q \in Queries, p \in {None, Some(<<"p">>)}, k \in {0, MaxId} :
    SearchNotes(q, p, None, None, k)

NextSearch == InsertSearch \/ Delete \/ Search

SpecSearch == Init /\ [][NextSearch]_vars

\* (text, project, tags, path) of the notes the filter specification inserts.
FilterInputs ==
  {<< <<"a">>, <<"p">>, <<>>, <<>> >>,
   << <<"a">>, <<"q">>, <<>>, <<>> >>}

FilterProjects == {None, Some(<<>>), Some(<<"p">>)}

FilterSince == {None, Some(<<"0", "1">>)}

FilterUntil == {None, Some(<<>>), Some(<<"0">>), Some(<<"0", "1">>)}

InsertFilter ==
  /\ CanInsert(MaxSmallId)
  /\ \E n \in FilterInputs : insert_note(n[1], n[2], n[3], n[4])
  /\ NoHistory

Filter ==
  \E p \in FilterProjects, s \in FilterSince, u \in FilterUntil,
     k \in {1, MaxSmallId} :
    SearchNotes(<<>>, p, s, u, k)

DeleteFilter == (\E id \in 1..(MaxSmallId + 1) : delete_note(id)) /\ NoHistory

NextFilter == InsertFilter \/ DeleteFilter \/ Tick \/ Filter

SpecFilter == Init /\ [][NextFilter]_vars

\* (text, project, tags, path) of the notes the command line specification
\* inserts.
CliInputs ==
  {<< <<"a">>, <<"p">>, <<>>, <<>> >>,
   << <<"b">>, <<"p">>, <<>>, <<>> >>}

RECURSIVE SeqsUpTo(_, _)
\* The sequences over S of length at most n.
SeqsUpTo(S, n) ==
  IF n = 0 THEN {<<>>}
  ELSE LET shorter == SeqsUpTo(S, n - 1)
       IN shorter \cup {Append(s, x) : s \in shorter, x \in S}

InsertCli ==
  /\ CanInsert(MaxSmallId)
  /\ \E n \in CliInputs : insert_note(n[1], n[2], n[3], n[4])
  /\ NoHistory

\* The prompts the command shows: one for each distinct target that exists,
\* none under --yes.
Prompts(ids, yes, picks) ==
  IF yes THEN 0
  ELSE Cardinality((Range(ids) \cup picks) \cap DOMAIN notes)

CliIdSeqs == SeqsUpTo(1..(MaxSmallId + 1), 2)

\* Up to two ids on the command line; in the interactive picker nothing or
\* every recent note picked; a reply to every prompt.
DeleteCmd ==
  /\ \E ids \in CliIdSeqs, yes \in BOOLEAN,
        picks \in {{}, DOMAIN notes} :
       \E answers \in [1..Prompts(ids, yes, picks) -> BOOLEAN] :
         delete(ids, yes, picks, answers)
  /\ NoHistory

NextCli == InsertCli \/ DeleteCmd

SpecCli == Init /\ [][NextCli]_vars

\* The export command over stores with notes of two projects.
ExportProjects == {None, Some(<<"p">>), Some(<<"q">>)}

InsertExport ==
  /\ CanInsert(MaxId)
  /\ \E n \in FilterInputs : insert_note(n[1], n[2], n[3], n[4])
  /\ NoHistory

Export == (\E p \in ExportProjects : export(p)) /\ NoHistory

NextExport == InsertExport \/ Delete \/ Export

SpecExport == Init /\ [][NextExport]_vars

\* ------------------------------------------------------------------ claims
StrictlyIncreasing(s) ==
  \A i, j \in DOMAIN s : i < j => StrLess(s[i], s[j])

\* stored is the comma-joined, sorted, duplicate-free set of the tags given.
IsNormalTags(stored, given) ==
  \E s \in [1..Cardinality(Range(given)) -> Range(given)] :
    /\ Range(s) = Range(given)
    /\ StrictlyIncreasing(s)
    /\ stored = Join(<<",">>, s)

\* The tags a stored tags string holds.
TagParts(tags) == IF tags = <<>> THEN <<>> ELSE Split(tags, ",")

\* C1: after insert_note(text, project, tags, path) returned id, get_note(id)
\* is one Note with exactly that text and project, the path's parts joined
\* by "/" (or "." for the path without parts), whose tags are the
\* comma-joined, sorted, duplicate-free set of the tags given; every live
\* note's tags keep that form, and a read returns the stored row.
C1_InsertGetRoundTrip ==
  /\ last.op = "insert" =>
       LET got == get_note(notes, last.id)
       IN /\ Len(got) = 1
          /\ got[1].id = last.id
          /\ got[1].text = last.text
          /\ got[1].project = last.project
          /\ IF last.path = <<>> THEN got[1].path = <<".">>
             ELSE Split(got[1].path, "/") = last.path
          /\ IsNormalTags(got[1].tags, last.tagsIn)
  /\ \A i \in DOMAIN notes : StrictlyIncreasing(TagParts(notes[i].tags))
  /\ (last.op = "get" /\ last.ok) =>
       /\ last.rows = <<notes[last.id]>>
       /\ StrictlyIncreasing(TagParts(last.rows[1].tags))

\* C1 witness: ["b", "a", "a"] was inserted after an earlier delete and is
\* stored as "a,b".
C1_Witness ==
  /\ last.op = "insert"
  /\ last.tagsIn = << <<"b">>, <<"a">>, <<"a">> >>
  /\ deleted # {}
  /\ Cardinality(DOMAIN notes) >= 2
  /\ notes[last.id].tags = <<"a", ",", "b">>

\* C2: delete_note(x) returns True at most once for an id x; after
\* delete_note(x), get_note(x) finds nothing; delete_note of an id that is
\* not present returns False and leaves the notes unchanged.
C2_DeleteIdempotent ==
  [][last'.op = "delete" =>
       /\ last'.ok => last'.id \notin deleted
       /\ get_note(notes', last'.id) = <<>>
       /\ last'.id \notin DOMAIN notes => (~last'.ok /\ notes' = notes)
    ]_vars

\* C3: every id insert_note returns is greater than every id an earlier
\* insert_note returned, deleted or not.
C3_IdsNeverReused ==
  [][last'.op = "insert" => \A j \in issued : last'.id > j]_vars

Min(a, b) == IF a <= b THEN a ELSE b

\* C7: iter_recent(limit = k), k >= 0, yields the min(k, n) live notes with
\* the largest ids, in strictly descending id order; after N inserts in
\* sequence it yields the last k inserted ids, newest first.
C7_RecencyOrdering ==
  (last.op = "recent" /\ last.limit >= 0) =>
    LET rows == last.rows
        k == last.limit
        got == {rows[i].id : i \in DOMAIN rows}
    IN /\ Len(rows) = Min(k, Cardinality(DOMAIN notes))
       /\ \A i \in DOMAIN rows :
            rows[i].id \in DOMAIN notes /\ rows[i] = notes[rows[i].id]
       /\ \A i, j \in DOMAIN rows : i < j => rows[i].id > rows[j].id
       /\ \A i \in DOMAIN notes \ got : \A g \in got : i < g
       /\ k <= Len(recentIns) =>
            \A i \in 1..k : rows[i].id = recentIns[Len(recentIns) + 1 - i]

\* C7 witness: three notes inserted in sequence after a delete, the two
\* newest listed.
C7_Witness ==
  /\ last.op = "recent"
  /\ last.limit = 2
  /\ Len(last.rows) = 2
  /\ Len(recentIns) = 3
  /\ deleted # {}

\* The tags a note carries: its non-blank fragments, stripped.
TagsOf(row) ==
  {Strip(f) : f \in Range(Split(row.tags, ","))} \ {<<>>}

\* The number of live notes carrying tag t.
NotesCarrying(t) == Cardinality({i \in DOMAIN notes : t \in TagsOf(notes[i])})

AllTags == UNION {TagsOf(notes[i]) : i \in DOMAIN notes}

\* C9: top_tags(limit) gives, for each distinct non-blank tag, the number of
\* notes carrying it, by descending count, ties by ascending tag, truncated
\* to limit.
C9_TagRanking ==
  (last.op = "top_tags" /\ last.limit >= 0) =>
    LET pairs == last.pairs
        listed == {pairs[i][1] : i \in DOMAIN pairs}
    IN /\ Len(pairs) = Min(last.limit, Cardinality(AllTags))
       /\ \A i \in DOMAIN pairs :
            /\ pairs[i][1] \in AllTags
            /\ pairs[i][2] = NotesCarrying(pairs[i][1])
       /\ \A i, j \in DOMAIN pairs : i < j => ItemBefore(pairs[i], pairs[j])
       /\ \A t \in AllTags \ listed : \A i \in DOMAIN pairs :
            ItemBefore(pairs[i], <<t, NotesCarrying(t)>>)

\* The spec's example: counts {a: 3, b: 3, c: 1}, limit 2, [(a, 3), (b, 3)].
C9_Example ==
  /\ last.op = "top_tags"
  /\ last.limit = 2
  /\ last.pairs = << << <<"a">>, 3 >>, << <<"b">>, 3 >> >>
  /\ NotesCarrying(<<"c">>) = 1

\* rows are the first limit of the notes in want, newest first.
NewestFirst(rows, want, limit) ==
  LET got == {rows[i] : i \in DOMAIN rows}
  IN /\ Len(rows) = Min(limit, Cardinality(want))
     /\ got \subseteq want
     /\ \A i, j \in DOMAIN rows : i < j => rows[i].id > rows[j].id
     /\ \A w \in want \ got : \A g \in got : w.id < g.id

\* C4: with FTS5, the index holds exactly one entry per live note, with that
\* note's id, text, project and tags, and none for a deleted note; a text
\* search returns live notes only.
C4_IndexConsistency ==
  fts5 =>
    /\ ftsIndex = {FtsEntry(notes[i]) : i \in DOMAIN notes}
    /\ \A i \in DOMAIN notes :
         Cardinality({e \in ftsIndex : e.rowid = i}) = 1
    /\ \A e \in ftsIndex : e.rowid \in DOMAIN notes
    /\ (last.op = "search" /\ last.query # <<>>) =>
         \A i \in DOMAIN last.rows :
           /\ last.rows[i].id \in DOMAIN notes
           /\ last.rows[i] = notes[last.rows[i].id]

\* C4 witness: a text search finds a note while an older id is gone.
C4_Witness ==
  /\ fts5
  /\ last.op = "search"
  /\ last.query = <<"b">>
  /\ Len(last.rows) >= 1
  /\ \E i \in 1..MaxId : i \notin DOMAIN notes /\ i < last.rows[1].id
  /\ ftsIndex # {}

\* The live notes passing the project, since and until filters, a filter
\* applying when present(filter).
Filtered(present(_)) ==
  {r \in Rows(notes) :
     /\ present(last.fproject) => r.project = TheStr(last.fproject)
     /\ present(last.since) => StrLeq(TheStr(last.since), r.created_at)
     /\ present(last.until) => StrLeq(r.created_at, TheStr(last.until))}

IsGiven(o) == o # None

\* C5 as claimed: search_notes(query = "", P, S, U, L) returns exactly the
\* live notes with project = P and S <= created_at <= U, newest first, the
\* first L; only a filter that is not given imposes no restriction.
C5_FilterComposition ==
  (last.op = "search" /\ last.query = <<>>) =>
    NewestFirst(last.rows, Filtered(IsGiven), last.limit)

\* C5 as amended: a filter that is not given or is the empty string imposes
\* no restriction.
C5_FilterCompositionNonEmpty ==
  (last.op = "search" /\ last.query = <<>>) =>
    /\ ~last.raised
    /\ NewestFirst(last.rows, Filtered(Truthy), last.limit)

\* C5 witness: all three filters given, one of two notes returned.
C5_Witness ==
  /\ last.op = "search"
  /\ last.query = <<>>
  /\ last.fproject = Some(<<"p">>)
  /\ last.since = Some(<<"0", "1">>)
  /\ last.until = Some(<<"0", "1">>)
  /\ Cardinality(DOMAIN notes) = 2
  /\ Len(last.rows) = 1

\* q occurs in s, ASCII case ignored.
ContainsIgnoreCase(s, q) ==
  \E i \in 0..(Len(s) - Len(q)) :
    \A j \in 1..Len(q) : Lower(s[i + j]) = Lower(q[j])

\* C6: without FTS5 and with a non-empty query q, search_notes returns
\* exactly the live notes whose text or tags contain q, case ignored, that
\* pass the other filters; the project is not searched.
C6_FallbackSubstring ==
  (last.op = "search" /\ ~fts5 /\ last.query # <<>>) =>
    NewestFirst(last.rows,
                {r \in Filtered(Truthy) :
                   \/ ContainsIgnoreCase(r.text, last.query)
                   \/ ContainsIgnoreCase(r.tags, last.query)},
                last.limit)

\* C8: with FTS5, a query the MATCH syntax rejects raises nothing: the call
\* returns a result.
C8_MalformedQueryContained ==
  (last.op = "search" /\ fts5 /\ last.query # <<>>
     /\ ~Fts5Parse(last.query).ok) => ~last.raised

\* C10: the delete command removes a note only if it is a target and --yes
\* was given or its prompt was confirmed, and then it does remove it; a
\* declined note stays; an id that does not exist is skipped; each distinct
\* target is processed once; every other note stays as it was.
C10_DeleteConfirmation ==
  [][last'.op = "cli delete" =>
       LET log == last'.log
           entries == {log[i] : i \in DOMAIN log}
           targets == Range(last'.targets)
       IN /\ ~last'.raised
          /\ {e.id : e \in entries} = targets
          /\ \A i, j \in DOMAIN log : i < j => log[i].id # log[j].id
          /\ \A id \in DOMAIN notes \ DOMAIN notes' :
               \E e \in entries :
                 /\ e.id = id /\ id \in targets
                 /\ last'.yes \/ (e.asked /\ e.answer)
          /\ \A e \in entries :
               /\ e.id \notin DOMAIN notes <=> e.outcome = "not found"
               /\ e.asked <=> (~last'.yes /\ e.id \in DOMAIN notes)
               /\ (e.asked /\ ~e.answer) =>
                    /\ e.outcome = "skipped"
                    /\ get_note(notes', e.id) = <<notes[e.id]>>
               /\ (e.id \in DOMAIN notes /\ (last'.yes \/ e.answer)) =>
                    /\ e.outcome = "deleted"
                    /\ get_note(notes', e.id) = <<>>
          /\ \A id \in DOMAIN notes' :
               id \in DOMAIN notes /\ notes'[id] = notes[id]
          /\ \A id \in DOMAIN notes \ targets : id \in DOMAIN notes'
    ]_vars

\* C10 witness: without --yes, one note declined and still there, one
\* confirmed and gone, a repeated target processed once.
C10_Witness ==
  /\ last.op = "cli delete"
  /\ ~last.yes
  /\ Len(last.targets) > Len(last.log)
  /\ \E i, j \in DOMAIN last.log :
       /\ last.log[i].outcome = "skipped"
       /\ last.log[i].id \in DOMAIN notes
       /\ last.log[j].outcome = "deleted"
       /\ last.log[j].id \notin DOMAIN notes

\* The notes of the store with the project P, or all of them when no
\* project is given.
OfProject(project) ==
  {r \in Rows(notes) : project # None => r.project = TheStr(project)}

\* C11: export --project P writes only the notes whose project is P, none
\* when no stored note has project P; export without a project writes every
\* stored note; the notes are written in ascending id order.
C11_ExportProjectFilter ==
  last.op = "cli export" =>
    last.rows = OrderByIdAsc(OfProject(last.fproject))

\* C11, the part that holds: without a project every stored note is written,
\* oldest first; with a project that some stored note has, exactly the notes
\* of that project are written, oldest first.
C11_ExportWhenProjectPresent ==
  (last.op = "cli export" /\ OfProject(last.fproject) # {}) =>
    last.rows = OrderByIdAsc(OfProject(last.fproject))

\* An export for a project that one of two stored notes has.
C11_Example ==
  /\ last.op = "cli export"
  /\ last.fproject # None
  /\ Cardinality(DOMAIN notes) = 2
  /\ Len(last.rows) = 1

====
